---- MODULE Spec2Model ----
(***************************************************************************)
(* A model of Open3D's ImguiFilamentBridge                                 *)
(* (src/src/Open3D/GUI/ImguiFilamentBridge.cpp): the growable pools of     *)
(* vertex/index buffers and material instances, the scissor key, and the   *)
(* per-frame translation of ImGui draw lists into one Filament Renderable; *)
(* and of the widgets Combobox (Combobox.cpp) and Menu (Menu.cpp).         *)
(*                                                                         *)
(* Floating point values (ImVec4 clip rectangles, io.DisplaySize) are      *)
(* fixed-point integers counting halves: the value 21 stands for 10.5.     *)
(* A 64-bit scissor key is the sequence of its four 16-bit limbs, least    *)
(* significant first.                                                      *)
(***************************************************************************)
EXTENDS Integers, Sequences, FiniteSets, TLC

VARIABLES
    UTILS_HAS_THREADING,  \* build flag read by syncThreads
    castMode,             \* what an out-of-range float -> uint16_t cast yields in this build
    vertex_buffers_,      \* Impl::vertex_buffers_: sequence of buffer objects
    index_buffers_,       \* Impl::index_buffers_
    material_instances_,  \* Impl::material_instances_: sequence of instances (their scissor)
    renderable_,          \* the Renderable component of Impl::renderable_, or Absent
    has_synced_,          \* Impl::has_synced_
    imguiData,            \* *imguiData as the last update call left it
    fb,                   \* <<fbwidth, fbheight>> computed by the last update call
    lastOp,               \* the operation that produced this state
    events,               \* what the last operation did to engine resources, in order
    maxRequired,          \* per slot, the largest vertex and index count ever required
    keyArg,               \* argument of the makeScissorKey call under study
    keyOut,               \* its result
    items_,               \* Combobox::Impl::items_
    current_index_,       \* Combobox::Impl::current_index_
    on_value_changed_,    \* whether Combobox::Impl::on_value_changed_ holds a function
    notified,             \* the calls of on_value_changed_ made by the last operation
    arg,                  \* the argument of the last operation on a widget
    menus,                \* the Menu objects: per object its Impl
    drawn                 \* what the last Draw of a widget returned

bridgeVars == <<UTILS_HAS_THREADING, castMode, vertex_buffers_, index_buffers_,
                material_instances_, renderable_, has_synced_,
                imguiData, fb, events, maxRequired, keyArg, keyOut>>

comboVars == <<items_, current_index_, on_value_changed_, notified>>

menuVars == <<menus>>

widgetVars == <<comboVars, menuVars, arg, drawn>>

vars == <<bridgeVars, lastOp, widgetVars>>

----------------------------------------------------------------------------
(* Bounds of the model. *)

MaxLists == 2
MaxCmds == 2

----------------------------------------------------------------------------
(* Program constants. *)

DefaultVertexCapacity == 1000
DefaultIndexCapacity == 5000
SizeofImDrawVert == 20
SizeofImDrawIdx == 2
SizeofUShort == 2
TwoTo16 == 65536

----------------------------------------------------------------------------
(* Arithmetic helpers. *)

RECURSIVE Pow2(_)
Pow2(n) == IF n = 0 THEN 1 ELSE 2 * Pow2(n - 1)

\* Bitwise or of two naturals.
RECURSIVE BitOr(_, _)
BitOr(a, b) ==
    IF a = 0 THEN b
    ELSE IF b = 0 THEN a
    ELSE (IF (a % 2 = 1) \/ (b % 2 = 1) THEN 1 ELSE 0) + 2 * BitOr(a \div 2, b \div 2)

\* The float -> integer conversion: truncation toward zero of a value in halves.
FloatToInt(h) == IF h >= 0 THEN h \div 2 ELSE -((-h) \div 2)

\* An int converted to float (halves).
IntToFloat(n) == 2 * n

CastModes == {"wrap", "saturate"}

\* (uint16_t)f for a float f. When the truncated value is not representable in
\* uint16_t the conversion is undefined; builds either convert to a 32-bit
\* integer and keep the low 16 bits ("wrap") or convert with unsigned
\* saturation to 32 bits and keep the low 16 bits ("saturate").
CastUint16(mode, f) ==
    LET t == FloatToInt(f)
    IN  IF t >= 0 /\ t < TwoTo16 THEN t
        ELSE IF mode = "wrap" THEN t % TwoTo16
        ELSE IF t < 0 THEN 0 ELSE t % TwoTo16

\* (uint64_t)v << s for a 16-bit v, as four 16-bit limbs.
ShiftLeft64(v, s) ==
    LET q == s \div 16
        r == s % 16
        x == v * Pow2(r)
    IN  [i \in 1..4 |->
            IF i = q + 1 THEN x % TwoTo16
            ELSE IF i = q + 2 THEN x \div TwoTo16
            ELSE 0]

\* a | b on 64-bit values.
Or64(a, b) == [i \in 1..4 |-> BitOr(a[i], b[i])]

\* (k >> s) & 0xffff for s a multiple of 16.
Field16(k, s) == k[(s \div 16) + 1]

----------------------------------------------------------------------------
(* makeScissorKey *)

makeScissorKey(mode, fbheight, clipRect) ==
    LET left == CastUint16(mode, clipRect.x)
        bottom == CastUint16(mode, IntToFloat(fbheight) - clipRect.w)
        width == CastUint16(mode, clipRect.z - clipRect.x)
        height == CastUint16(mode, clipRect.w - clipRect.y)
    IN  Or64(Or64(ShiftLeft64(left, 0), ShiftLeft64(bottom, 16)),
             Or64(ShiftLeft64(width, 32), ShiftLeft64(height, 48)))

----------------------------------------------------------------------------
(* Engine objects. *)

\* A vertex or index buffer object. Within one slot every buffer built after
\* the first is built with a larger count than the one destroyed for it, so
\* kind, slot and count tell one object from every other.
Buffer(kind, slot, count) == [kind |-> kind, slot |-> slot, count |-> count]

nullptr == Buffer("null", -1, 0)

\* A draw command named in an event.
CmdRef(list, cmd) == Buffer("cmd", list, cmd)

\* The Renderable component: absent, or built from a builder's primitives.
Absent == [built |-> FALSE, prims |-> <<>>]

\* A builder entry no geometry() call has set.
Unset == [vb |-> nullptr, ib |-> nullptr, offset |-> 0, count |-> 0,
          blendOrder |-> 0, material |-> -1]

\* The buffers a Renderable's primitives point to.
BuffersOf(r) ==
    ({r.prims[p].vb : p \in 1..Len(r.prims)} \cup
     {r.prims[p].ib : p \in 1..Len(r.prims)}) \ {nullptr}

\* One engine call, as recorded in events. busy: render work not yet executed
\* reads obj; inUse: the current Renderable points to obj.
Ev(op, obj, busy, inUse) == [op |-> op, obj |-> obj, busy |-> busy, inUse |-> inUse]

Log(st, op, obj) ==
    [st EXCEPT !.events = Append(@, Ev(op, obj, obj \in st.pendingReads,
                                       obj \in BuffersOf(st.renderable_)))]

\* engineInstance.destroy(obj); destroying a null pointer does nothing.
EngineDestroy(st, obj) == IF obj = nullptr THEN st ELSE Log(st, "destroy", obj)

----------------------------------------------------------------------------
(* syncThreads, createVertexBuffer, createIndexBuffer, createBuffers *)

\* Fence::waitAndDestroy(createFence()) returns once the render thread has
\* executed everything enqueued so far.
\* Mutant: the wait is skipped.
syncThreads_NoWait(st) == [st EXCEPT !.has_synced_ = TRUE]

\* Mutant: the flag is never set.
syncThreads_NoFlag(st) ==
    IF UTILS_HAS_THREADING /\ ~st.has_synced_
    THEN [Log(st, "wait", nullptr) EXCEPT !.pendingReads = {}]
    ELSE st

syncThreads(st) ==
    IF UTILS_HAS_THREADING /\ ~st.has_synced_
    THEN [Log(st, "wait", nullptr) EXCEPT !.pendingReads = {}, !.has_synced_ = TRUE]
    ELSE st

createVertexBuffer(st, bufferIndex, capacity) ==
    LET s1 == syncThreads(st)
        s2 == EngineDestroy(s1, s1.vertex_buffers_[bufferIndex + 1])
        new == Buffer("vb", bufferIndex, capacity)
    IN  Log([s2 EXCEPT !.vertex_buffers_[bufferIndex + 1] = new], "create", new)

createIndexBuffer(st, bufferIndex, capacity) ==
    LET s1 == syncThreads(st)
        s2 == EngineDestroy(s1, s1.index_buffers_[bufferIndex + 1])
        new == Buffer("ib", bufferIndex, capacity)
    IN  Log([s2 EXCEPT !.index_buffers_[bufferIndex + 1] = new], "create", new)

\* std::vector::resize(n, nullptr) of a shorter vector.
Resize(v, n) == [i \in 1..n |-> IF i <= Len(v) THEN v[i] ELSE nullptr]

RECURSIVE CreateVertexBuffersFrom(_, _)
CreateVertexBuffersFrom(st, i) ==
    IF i >= Len(st.vertex_buffers_) THEN st
    ELSE CreateVertexBuffersFrom(createVertexBuffer(st, i, DefaultVertexCapacity), i + 1)

RECURSIVE CreateIndexBuffersFrom(_, _)
CreateIndexBuffersFrom(st, i) ==
    IF i >= Len(st.index_buffers_) THEN st
    ELSE CreateIndexBuffersFrom(createIndexBuffer(st, i, DefaultIndexCapacity), i + 1)

createBuffers(st, numRequiredBuffers) ==
    LET s1 == IF numRequiredBuffers > Len(st.vertex_buffers_)
              THEN CreateVertexBuffersFrom(
                       [st EXCEPT !.vertex_buffers_ = Resize(@, numRequiredBuffers)],
                       Len(st.vertex_buffers_))
              ELSE st
    IN  IF numRequiredBuffers > Len(s1.index_buffers_)
        THEN CreateIndexBuffersFrom(
                 [s1 EXCEPT !.index_buffers_ = Resize(@, numRequiredBuffers)],
                 Len(s1.index_buffers_))
        ELSE s1

----------------------------------------------------------------------------
(* populateVertexData *)

Max(a, b) == IF a >= b THEN a ELSE b

\* Mutant: a slot is rebuilt whenever its capacity differs from the count required.
populateVertexData_Fit(st, bufferIndex, vbSizeInBytes, ibSizeInBytes) ==
    LET requiredVertCount == vbSizeInBytes \div SizeofImDrawVert
        s1 == IF requiredVertCount # st.vertex_buffers_[bufferIndex + 1].count
              THEN createVertexBuffer(st, bufferIndex, requiredVertCount)
              ELSE st
        requiredIndexCount == ibSizeInBytes \div SizeofUShort
        s2 == IF requiredIndexCount # s1.index_buffers_[bufferIndex + 1].count
              THEN createIndexBuffer(s1, bufferIndex, requiredIndexCount)
              ELSE s1
    IN  [s2 EXCEPT !.maxRequired[bufferIndex + 1] =
            [v |-> Max(@.v, requiredVertCount), i |-> Max(@.i, requiredIndexCount)]]

\* Mutant: a slot that is too small is rebuilt with twice the count required.
populateVertexData_Doubling(st, bufferIndex, vbSizeInBytes, ibSizeInBytes) ==
    LET requiredVertCount == vbSizeInBytes \div SizeofImDrawVert
        s1 == IF requiredVertCount > st.vertex_buffers_[bufferIndex + 1].count
              THEN createVertexBuffer(st, bufferIndex, 2 * requiredVertCount)
              ELSE st
        requiredIndexCount == ibSizeInBytes \div SizeofUShort
        s2 == IF requiredIndexCount > s1.index_buffers_[bufferIndex + 1].count
              THEN createIndexBuffer(s1, bufferIndex, 2 * requiredIndexCount)
              ELSE s1
    IN  [s2 EXCEPT !.maxRequired[bufferIndex + 1] =
            [v |-> Max(@.v, requiredVertCount), i |-> Max(@.i, requiredIndexCount)]]

populateVertexData(st, bufferIndex, vbSizeInBytes, ibSizeInBytes) ==
    LET requiredVertCount == vbSizeInBytes \div SizeofImDrawVert
        capacityVertCount == st.vertex_buffers_[bufferIndex + 1].count
        s1 == IF requiredVertCount > capacityVertCount
              THEN createVertexBuffer(st, bufferIndex, requiredVertCount)
              ELSE st
        requiredIndexCount == ibSizeInBytes \div SizeofUShort
        capacityIndexCount == s1.index_buffers_[bufferIndex + 1].count
        s2 == IF requiredIndexCount > capacityIndexCount
              THEN createIndexBuffer(s1, bufferIndex, requiredIndexCount)
              ELSE s1
    IN  [s2 EXCEPT !.maxRequired[bufferIndex + 1] =
            [v |-> Max(@.v, requiredVertCount), i |-> Max(@.i, requiredIndexCount)]]

----------------------------------------------------------------------------
(* update: the parts of one frame *)

\* float * float for a whole-numbered second factor (halves).
FloatMul(a, b) == (a * b) \div 2

\* ImDrawData::ScaleClipRects(io.DisplayFramebufferScale)
ScaleClipRects(data, scale) ==
    [l \in 1..Len(data) |->
        [data[l] EXCEPT !.CmdBuffer =
            [c \in 1..Len(data[l].CmdBuffer) |->
                [data[l].CmdBuffer[c] EXCEPT !.ClipRect =
                    [x |-> FloatMul(@.x, scale.x), y |-> FloatMul(@.y, scale.y),
                     z |-> FloatMul(@.z, scale.x), w |-> FloatMul(@.w, scale.y)]]]]]

FbWidth(io) == FloatToInt(FloatMul(io.DisplaySize.x, io.DisplayFramebufferScale.x))
FbHeight(io) == FloatToInt(FloatMul(io.DisplaySize.y, io.DisplayFramebufferScale.y))

RECURSIVE SumCmdBufferSizes(_, _)
SumCmdBufferSizes(data, l) ==
    IF l > Len(data) THEN 0
    ELSE Len(data[l].CmdBuffer) + SumCmdBufferSizes(data, l + 1)

\* Mutant: only the commands without a callback are counted.
CountPrims_Drawn(data) ==
    Cardinality({<<l, c>> \in (1..Len(data)) \X (1..MaxCmds) :
                    c <= Len(data[l].CmdBuffer) /\ ~data[l].CmdBuffer[c].UserCallback})

\* The first loop of update: nPrims.
CountPrims(data) == SumCmdBufferSizes(data, 1)

\* The first loop of update: the keys of scissorRects, one per distinct key of
\* all the commands.
ScissorKeys(mode, fbheight, data) ==
    UNION {{makeScissorKey(mode, fbheight, data[l].CmdBuffer[c].ClipRect) :
                c \in 1..Len(data[l].CmdBuffer)} : l \in 1..Len(data)}

\* The orders in which a range-for may visit an unordered_map with these keys.
RECURSIVE IterationOrders(_)
IterationOrders(keys) ==
    IF keys = {} THEN {<<>>}
    ELSE UNION {{<<k>> \o rest : rest \in IterationOrders(keys \ {k})} : k \in keys}

\* A material instance, with the scissor it was last given.
MaterialInstance(left, bottom, width, height) ==
    [left |-> left, bottom |-> bottom, width |-> width, height |-> height]

\* material_->createInstance()
createInstance == MaterialInstance(0, 0, 0, 0)

\* Mutant: the pool is resized to the keys of the frame, up or down.
GrowMaterialInstances_Resize(instances, nKeys) ==
    [i \in 1..nKeys |-> IF i <= Len(instances) THEN instances[i] ELSE createInstance]

\* "Ensure that we have a material instance for each scissor rectangle."
GrowMaterialInstances(instances, nKeys) ==
    IF nKeys > Len(instances)
    THEN [i \in 1..nKeys |-> IF i <= Len(instances) THEN instances[i] ELSE createInstance]
    ELSE instances

\* Mutant: matIndex is not advanced: every key is written to the first instance.
PushScissorRects_FirstInstance(instances, order) ==
    [i \in 1..Len(instances) |->
        IF i = 1 /\ Len(order) > 0
        THEN MaterialInstance(Field16(order[Len(order)], 0), Field16(order[Len(order)], 16),
                              Field16(order[Len(order)], 32), Field16(order[Len(order)], 48))
        ELSE instances[i]]

\* "Push each unique scissor rectangle to a MaterialInstance": the instance
\* matIndex takes the key the iteration visits at position matIndex.
PushScissorRects(instances, order) ==
    [i \in 1..Len(instances) |->
        IF i <= Len(order)
        THEN MaterialInstance(Field16(order[i], 0), Field16(order[i], 16),
                              Field16(order[i], 32), Field16(order[i], 48))
        ELSE instances[i]]

\* Mutant: every key is given the first instance.
ScissorRectsMap_First(order) == [k \in {order[i] : i \in 1..Len(order)} |-> 0]

\* scissorRects after that loop: key -> index of its instance in material_instances_.
ScissorRectsMap(order) ==
    [k \in {order[i] : i \in 1..Len(order)} |->
        (CHOOSE i \in 1..Len(order) : order[i] = k) - 1]

\* Mutant: the elements of a command with a callback are not counted in the
\* offsets of the commands after it.
RECURSIVE EmitCommands_DrawnOffsets(_, _, _, _, _)
EmitCommands_DrawnOffsets(acc, fr, l, c, indexOffset) ==
    IF c > Len(fr.data[l].CmdBuffer) THEN acc
    ELSE LET pcmd == fr.data[l].CmdBuffer[c]
             skey == makeScissorKey(fr.mode, fr.fbheight, pcmd.ClipRect)
             prim == [vb |-> acc.st.vertex_buffers_[l],
                      ib |-> acc.st.index_buffers_[l],
                      offset |-> indexOffset,
                      count |-> pcmd.ElemCount,
                      blendOrder |-> acc.primIndex,
                      material |-> fr.scissorRects[skey]]
         IN  IF pcmd.UserCallback
             THEN EmitCommands_DrawnOffsets(
                      [acc EXCEPT !.st = Log(@, "callback", CmdRef(l - 1, c - 1))],
                      fr, l, c + 1, indexOffset)
             ELSE EmitCommands_DrawnOffsets(
                      [acc EXCEPT !.rb[acc.primIndex + 1] = prim, !.primIndex = @ + 1],
                      fr, l, c + 1, indexOffset + pcmd.ElemCount)

\* The command loop of one draw list. acc: the working state st, the builder's
\* entries rb and primIndex.
RECURSIVE EmitCommands(_, _, _, _, _)
EmitCommands(acc, fr, l, c, indexOffset) ==
    IF c > Len(fr.data[l].CmdBuffer) THEN acc
    ELSE LET pcmd == fr.data[l].CmdBuffer[c]
             bufferIndex == l - 1
             skey == makeScissorKey(fr.mode, fr.fbheight, pcmd.ClipRect)
             prim == [vb |-> acc.st.vertex_buffers_[bufferIndex + 1],
                      ib |-> acc.st.index_buffers_[bufferIndex + 1],
                      offset |-> indexOffset,
                      count |-> pcmd.ElemCount,
                      blendOrder |-> acc.primIndex,
                      material |-> fr.scissorRects[skey]]
             next == IF pcmd.UserCallback
                     THEN [acc EXCEPT !.st = Log(@, "callback", CmdRef(l - 1, c - 1))]
                     ELSE [acc EXCEPT !.rb[acc.primIndex + 1] = prim,
                                      !.primIndex = @ + 1]
         IN  EmitCommands(next, fr, l, c + 1, indexOffset + pcmd.ElemCount)

\* The draw-list loop: populate slot bufferIndex, then emit the list's commands.
RECURSIVE EmitLists(_, _, _)
EmitLists(acc, fr, l) ==
    IF l > Len(fr.data) THEN acc
    ELSE LET cmds == fr.data[l]
             populated == [acc EXCEPT !.st =
                 populateVertexData(@, l - 1, cmds.VtxSize * SizeofImDrawVert,
                                    cmds.IdxSize * SizeofImDrawIdx)]
         IN  EmitLists(EmitCommands(populated, fr, l, 1, 0), fr, l + 1)

----------------------------------------------------------------------------
(* update *)

\* The working state of a call: the fields of Impl the call reads and writes,
\* the buffers that render work enqueued before the call and not yet executed
\* reads, the call's log and the record of required counts.
Working(busy) ==
    [vertex_buffers_ |-> vertex_buffers_, index_buffers_ |-> index_buffers_,
     material_instances_ |-> material_instances_, renderable_ |-> renderable_,
     has_synced_ |-> has_synced_, pendingReads |-> busy,
     maxRequired |-> maxRequired, events |-> <<>>, imguiData |-> imguiData]

\* Mutant: the frame is skipped only when both sides are zero.
SkipFrame_BothZero(fbwidth, fbheight) == fbwidth = 0 /\ fbheight = 0

\* The frame is skipped when the framebuffer has no area.
SkipFrame(fbwidth, fbheight) == fbwidth = 0 \/ fbheight = 0

\* Mutant: the builder is built whatever the number of draw lists.
BuildRenderable_Always(nLists, rb) == [built |-> TRUE, prims |-> rb]

\* rbuilder.build, only for a frame with a draw list.
BuildRenderable(nLists, rb) ==
    IF nLists > 0 THEN [built |-> TRUE, prims |-> rb] ELSE Absent

\* update(imguiData) after the zero-area test: the state the call leaves, for
\* the scaled draw data, the cast behaviour of the build and the order in which
\* scissorRects is visited.
TranslateFrame(st0, data, mode, fbheight, order) ==
    LET n == Len(data)
        s1 == createBuffers(st0, n)
        nPrims == CountPrims(data)
        s2 == [s1 EXCEPT !.material_instances_ =
                  PushScissorRects(GrowMaterialInstances(@, Len(order)), order),
                         !.maxRequired =
                  [i \in 1..Max(n, Len(@)) |->
                      IF i <= Len(@) THEN @[i] ELSE [v |-> 0, i |-> 0]]]
        s3 == [Log(s2, "destroyRenderable", nullptr) EXCEPT !.renderable_ = Absent]
        fr == [data |-> data, mode |-> mode, fbheight |-> fbheight,
               scissorRects |-> ScissorRectsMap(order)]
        acc == EmitLists([st |-> s3, rb |-> [p \in 1..nPrims |-> Unset], primIndex |-> 0],
                         fr, 1)
    IN  [acc.st EXCEPT !.renderable_ = BuildRenderable(n, acc.rb)]

----------------------------------------------------------------------------
(* ~ImguiFilamentBridge *)

\* engineInstance.destroy of the elements of a vector, from element i (from 1) on.
RECURSIVE DestroyFrom(_, _, _)
DestroyFrom(st, objs, i) ==
    IF i > Len(objs) THEN st
    ELSE DestroyFrom(EngineDestroy(st, objs[i]), objs, i + 1)

\* Mutant: the buffers are destroyed first, the Renderable last.
Destructor_BuffersFirst(st) ==
    LET s1 == DestroyFrom(st, st.vertex_buffers_, 1)
        s2 == DestroyFrom(s1, st.index_buffers_, 1)
    IN  [Log(s2, "destroyRenderable", nullptr) EXCEPT !.renderable_ = Absent]

\* The destructor: the Renderable, the material instances, then the buffers.
Destructor(st) ==
    LET s1 == [Log(st, "destroyRenderable", nullptr) EXCEPT !.renderable_ = Absent]
        s2 == [s1 EXCEPT !.events =
                  @ \o [i \in 1..Len(st.material_instances_) |->
                           Ev("destroyInstance", Buffer("mi", i - 1, 0), FALSE, FALSE)]]
        s3 == DestroyFrom(s2, st.vertex_buffers_, 1)
    IN  DestroyFrom(s3, st.index_buffers_, 1)

----------------------------------------------------------------------------
(* The inputs of update. *)

Rect(x, y, z, w) == [x |-> x, y |-> y, z |-> z, w |-> w]

DrawCmd(elemCount, clipRect, userCallback) ==
    [ElemCount |-> elemCount, ClipRect |-> clipRect, UserCallback |-> userCallback]

DrawList(vtxSize, idxSize, cmdBuffer) ==
    [VtxSize |-> vtxSize, IdxSize |-> idxSize, CmdBuffer |-> cmdBuffer]

IO(dw, dh, sx, sy) ==
    [DisplaySize |-> [x |-> dw, y |-> dh], DisplayFramebufferScale |-> [x |-> sx, y |-> sy]]

RECURSIVE SeqsUpTo(_, _)
SeqsUpTo(S, n) ==
    IF n = 0 THEN {<<>>}
    ELSE LET shorter == SeqsUpTo(S, n - 1)
         IN  shorter \cup {Append(q, e) : q \in {r \in shorter : Len(r) = n - 1}, e \in S}

\* (0, 0, 10, 10) and (0.5, 0, 10.5, 10): the same integer box at scale 1,
\* two boxes at scale 2.
RectA == Rect(0, 0, 20, 20)
RectA2 == Rect(1, 0, 21, 20)

\* Two commands that draw and one that calls back.
Cmds == {DrawCmd(6, RectA, FALSE), DrawCmd(3, RectA2, FALSE), DrawCmd(9, RectA2, TRUE)}

\* Frames that vary in commands: no draw list, one, or MaxLists draw lists of
\* one command buffer, of a size the default capacities hold.
CommandFrames ==
    {[l \in 1..n |-> DrawList(800, 4000, cb)] :
        n \in {0, 1, MaxLists}, cb \in SeqsUpTo(Cmds, MaxCmds)}

\* Vertex and index counts of a draw list: within the default capacities,
\* above the vertex default, above both.
ListSizes == {<<800, 4000>>, <<1200, 4000>>, <<1500, 6000>>}

\* Frames that vary in size: up to MaxLists draw lists of one command each.
GrowthFrames ==
    SeqsUpTo({DrawList(sz[1], sz[2], <<DrawCmd(6, RectA, FALSE)>>) : sz \in ListSizes}, MaxLists)

\* 20 x 20 at scale 1, 10 x 10 at scale 2.
VisibleIOs == {IO(40, 40, 2, 2), IO(20, 20, 4, 4)}

\* What a minimized window passes: 0.5 x 20 and 20 x 0 at scale 1.
MinimizedCalls ==
    {[data |-> <<DrawList(800, 4000, <<DrawCmd(9, RectA2, TRUE), DrawCmd(3, RectA2, FALSE)>>)>>,
      io |-> io] :
        io \in {IO(1, 40, 2, 2), IO(40, 0, 2, 2)}}

Calls ==
    {[data |-> d, io |-> io] : d \in CommandFrames, io \in VisibleIOs} \cup MinimizedCalls

GrowthCalls ==
    {[data |-> d, io |-> IO(40, 40, 2, 2)] : d \in GrowthFrames} \cup MinimizedCalls

----------------------------------------------------------------------------
(* The bridge as a state machine. *)

NoKeyArg == [fbheight |-> 0, clipRect |-> Rect(0, 0, 0, 0)]

\* The bridge after its constructor.
InitBridge ==
    /\ vertex_buffers_ = <<>>
    /\ index_buffers_ = <<>>
    /\ material_instances_ = <<>>
    /\ renderable_ = Absent
    /\ has_synced_ = FALSE
    /\ imguiData = <<>>
    /\ fb = <<0, 0>>
    /\ lastOp = "init"
    /\ events = <<>>
    /\ maxRequired = <<>>

\* No Combobox and no Menu: the state of the widgets where only the bridge runs.
NoWidgets ==
    /\ items_ = <<>>
    /\ current_index_ = 0
    /\ on_value_changed_ = FALSE
    /\ notified = <<>>
    /\ arg = <<>>
    /\ menus = <<>>
    /\ drawn = <<>>

\* Every clip rectangle of Calls and GrowthCalls has components that 16 bits
\* hold, where the cast is defined and the builds agree on it.
InitCast ==
    /\ castMode = "wrap"
    /\ keyArg = NoKeyArg
    /\ keyOut = <<>>

\* The threaded build, which Filament's default is.
Init ==
    /\ InitBridge
    /\ InitCast
    /\ NoWidgets
    /\ UTILS_HAS_THREADING = TRUE

\* Either build.
InitGrowth ==
    /\ InitBridge
    /\ InitCast
    /\ NoWidgets
    /\ UTILS_HAS_THREADING \in BOOLEAN

\* The buffers the render thread may still be reading when update is called:
\* with threads, any buffer alive; without, rendering has run to its end.
MayBeRead ==
    IF UTILS_HAS_THREADING
    THEN ({vertex_buffers_[i] : i \in 1..Len(vertex_buffers_)} \cup
          {index_buffers_[i] : i \in 1..Len(index_buffers_)})
    ELSE {}

\* The state update leaves when the frame is translated, for every order in
\* which scissorRects may be visited.
Translations(call, fbheight) ==
    LET data == ScaleClipRects(call.data, call.io.DisplayFramebufferScale)
    IN  {[TranslateFrame([Working(MayBeRead) EXCEPT !.has_synced_ = FALSE],
                         data, castMode, fbheight, order)
            EXCEPT !.imguiData = data] :
         order \in IterationOrders(ScissorKeys(castMode, fbheight, data))}

\* ImguiFilamentBridge::update(imguiData), for the calls of a set.
UpdateFrom(calls) ==
    \E call \in calls :
        \E fbwidth \in {FbWidth(call.io)}, fbheight \in {FbHeight(call.io)} :
            /\ lastOp # "~ImguiFilamentBridge"
            /\ lastOp' = "update"
            /\ fb' = <<fbwidth, fbheight>>
            /\ UNCHANGED <<UTILS_HAS_THREADING, castMode, keyArg, keyOut>>
            /\ UNCHANGED widgetVars
            /\ IF SkipFrame(fbwidth, fbheight)
               THEN /\ has_synced_' = FALSE
                    /\ imguiData' = call.data
                    /\ events' = <<>>
                    /\ UNCHANGED <<vertex_buffers_, index_buffers_, material_instances_,
                                   renderable_, maxRequired>>
               ELSE \E st \in Translations(call, fbheight) :
                        /\ imguiData' = st.imguiData
                        /\ vertex_buffers_' = st.vertex_buffers_
                        /\ index_buffers_' = st.index_buffers_
                        /\ material_instances_' = st.material_instances_
                        /\ renderable_' = st.renderable_
                        /\ has_synced_' = st.has_synced_
                        /\ events' = st.events
                        /\ maxRequired' = st.maxRequired

Update == UpdateFrom(Calls)

UpdateGrowth == UpdateFrom(GrowthCalls)

\* ImguiFilamentBridge::~ImguiFilamentBridge(): the fields are left as they
\* were, the object is gone.
Destroy ==
    /\ lastOp # "~ImguiFilamentBridge"
    /\ \E st \in {Destructor(Working(MayBeRead))} :
        /\ renderable_' = st.renderable_
        /\ events' = st.events
    /\ lastOp' = "~ImguiFilamentBridge"
    /\ UNCHANGED <<UTILS_HAS_THREADING, castMode, vertex_buffers_, index_buffers_,
                   material_instances_, has_synced_, imguiData, fb, maxRequired,
                   keyArg, keyOut>>
    /\ UNCHANGED widgetVars

Next == Update \/ Destroy

Spec == Init /\ [][Next]_vars

NextGrowth == UpdateGrowth \/ Destroy

SpecGrowth == InitGrowth /\ [][NextGrowth]_vars

----------------------------------------------------------------------------
(* makeScissorKey on its own: the arguments are drawn at the start, the call
   is the only step. *)

\* Components of a clip rectangle: -1, 0, 10.5, 65535, 65536, 70000.5.
KeyRectValues == {-2, 0, 21, 131070, 131072, 140001}

KeyArgs ==
    {[fbheight |-> 20, clipRect |-> Rect(x, y, z, w)] :
        x \in KeyRectValues, y \in KeyRectValues, z \in KeyRectValues, w \in KeyRectValues}

InitKey ==
    /\ InitBridge
    /\ NoWidgets
    /\ UTILS_HAS_THREADING = TRUE
    /\ castMode \in CastModes
    /\ keyArg \in KeyArgs
    /\ keyOut = <<>>

MakeKey ==
    /\ keyOut = <<>>
    /\ keyOut' = makeScissorKey(castMode, keyArg.fbheight, keyArg.clipRect)
    /\ lastOp' = "makeScissorKey"
    /\ UNCHANGED <<UTILS_HAS_THREADING, castMode, vertex_buffers_, index_buffers_,
                   material_instances_, renderable_, has_synced_, imguiData, fb,
                   events, maxRequired, keyArg>>
    /\ UNCHANGED widgetVars

NextKey == MakeKey

SpecKey == InitKey /\ [][NextKey]_vars

----------------------------------------------------------------------------
(* Vocabulary of the properties. *)

\* The state is the one an update call returned in.
Updated == lastOp = "update"

\* ... a call that found a framebuffer with area, or one that found none.
Translated == Updated /\ fb[1] # 0 /\ fb[2] # 0
Skipped == Updated /\ (fb[1] = 0 \/ fb[2] = 0)

EventsOf(op) == {k \in 1..Len(events) : events[k].op = op}

\* The count the draw list of slot obj.slot requires of a buffer of obj's kind.
RequiredOf(data, obj) ==
    IF obj.kind = "vb" THEN data[obj.slot + 1].VtxSize ELSE data[obj.slot + 1].IdxSize

DefaultOf(obj) ==
    IF obj.kind = "vb" THEN DefaultVertexCapacity ELSE DefaultIndexCapacity

----------------------------------------------------------------------------
(* C1: the capacity of a vertex or index slot never decreases; it is at least
   the largest count ever required of the slot, the count of the frame just
   translated included; and it changes only in an update call whose draw list
   for the slot requires more than the slot holds. *)

C1_Covers ==
    /\ Len(index_buffers_) = Len(vertex_buffers_)
    /\ Len(maxRequired) = Len(vertex_buffers_)
    /\ \A i \in 1..Len(vertex_buffers_) :
        /\ vertex_buffers_[i].count >= maxRequired[i].v
        /\ index_buffers_[i].count >= maxRequired[i].i
    /\ Translated =>
        /\ Len(imguiData) <= Len(vertex_buffers_)
        /\ \A i \in 1..Len(imguiData) :
            /\ maxRequired[i].v >= imguiData[i].VtxSize
            /\ maxRequired[i].i >= imguiData[i].IdxSize

C1_Step ==
    /\ Len(vertex_buffers_') >= Len(vertex_buffers_)
    /\ Len(index_buffers_') >= Len(index_buffers_)
    /\ \A i \in 1..Len(vertex_buffers_) :
        /\ vertex_buffers_'[i].count >= vertex_buffers_[i].count
        /\ index_buffers_'[i].count >= index_buffers_[i].count
        /\ maxRequired'[i].v >= maxRequired[i].v
        /\ maxRequired'[i].i >= maxRequired[i].i
        /\ vertex_buffers_'[i].count # vertex_buffers_[i].count =>
            /\ Translated'
            /\ i <= Len(imguiData')
            /\ imguiData'[i].VtxSize > vertex_buffers_[i].count
        /\ index_buffers_'[i].count # index_buffers_[i].count =>
            /\ Translated'
            /\ i <= Len(imguiData')
            /\ imguiData'[i].IdxSize > index_buffers_[i].count

C1_CapacityOnlyGrows == []C1_Covers /\ [][C1_Step]_vars

\* A slot that grew to 1500 vertices and 6000 indices, in a frame that asks
\* 800 and 4000 of it.
C1_Witness ==
    /\ Translated
    /\ Len(imguiData) >= 1
    /\ imguiData[1].VtxSize = 800
    /\ imguiData[1].IdxSize = 4000
    /\ vertex_buffers_[1].count = 1500
    /\ index_buffers_[1].count = 6000

----------------------------------------------------------------------------
(* C2, as stated: whenever update builds or rebuilds a buffer slot, a blocking
   fence wait has completed earlier in the same call. *)

WaitedBefore(k) == \E j \in 1..(k - 1) : events[j].op = "wait"

C2_WaitBeforeDestroy ==
    Updated => \A k \in EventsOf("destroy") \cup EventsOf("create") : WaitedBefore(k)

(* C2, amended: in a build with UTILS_HAS_THREADING every buffer that update
   destroys or builds is destroyed or built after a fence wait of the same
   call; in a build without it no wait is made. In both, no render work still
   to be executed reads a buffer at the moment update destroys it. *)
C2_WaitBeforeDestroyWithThreads ==
    Updated =>
        /\ UTILS_HAS_THREADING =>
            \A k \in EventsOf("destroy") \cup EventsOf("create") : WaitedBefore(k)
        /\ ~UTILS_HAS_THREADING => EventsOf("wait") = {}
        /\ \A k \in EventsOf("destroy") : ~events[k].busy

\* A threaded call that destroyed a buffer.
C2_Witness ==
    /\ Updated
    /\ UTILS_HAS_THREADING
    /\ EventsOf("destroy") # {}

----------------------------------------------------------------------------
(* C3: one update call waits on the fence at most once, however many slots it
   builds or rebuilds; it waits not at all when it builds none; has_synced_
   tells whether the call has waited. *)

C3_AtMostOneWait ==
    Updated =>
        /\ Cardinality(EventsOf("wait")) <= 1
        /\ EventsOf("create") = {} => EventsOf("wait") = {}
        /\ has_synced_ <=> EventsOf("wait") # {}

\* A call that built or rebuilt six buffers and waited once.
C3_Witness ==
    /\ Updated
    /\ Cardinality(EventsOf("create")) >= 6
    /\ Cardinality(EventsOf("wait")) = 1

----------------------------------------------------------------------------
(* C9: a slot appended to the pool is built with 1000 vertices and 5000
   indices; a slot too small for its draw list has its buffer destroyed and a
   new one built with exactly the count the list requires. *)

Rebuilds(k) ==
    /\ k > 1
    /\ events[k - 1].op = "destroy"

C9_Events ==
    Updated =>
        /\ \A k \in EventsOf("create") :
            IF Rebuilds(k)
            THEN /\ events[k - 1].obj.kind = events[k].obj.kind
                 /\ events[k - 1].obj.slot = events[k].obj.slot
                 /\ events[k - 1].obj.count < events[k].obj.count
                 /\ events[k].obj.count = RequiredOf(imguiData, events[k].obj)
            ELSE events[k].obj.count = DefaultOf(events[k].obj)
        /\ \A k \in EventsOf("destroy") :
            /\ k < Len(events)
            /\ events[k + 1].op = "create"
        /\ \A i \in 1..Len(vertex_buffers_) :
            /\ vertex_buffers_[i].count \in
                {DefaultVertexCapacity, maxRequired[i].v}
            /\ index_buffers_[i].count \in
                {DefaultIndexCapacity, maxRequired[i].i}

HasEvent(evs, op, obj) == \E k \in 1..Len(evs) : evs[k].op = op /\ evs[k].obj = obj

C9_Step ==
    Translated' =>
        /\ Len(vertex_buffers_') = Max(Len(vertex_buffers_), Len(imguiData'))
        /\ \A i \in (Len(vertex_buffers_) + 1)..Len(vertex_buffers_') :
            /\ HasEvent(events', "create", Buffer("vb", i - 1, DefaultVertexCapacity))
            /\ HasEvent(events', "create", Buffer("ib", i - 1, DefaultIndexCapacity))
        /\ \A i \in 1..Len(vertex_buffers_) :
            /\ vertex_buffers_'[i] # vertex_buffers_[i] =>
                /\ HasEvent(events', "destroy", vertex_buffers_[i])
                /\ vertex_buffers_'[i].count = imguiData'[i].VtxSize
            /\ index_buffers_'[i] # index_buffers_[i] =>
                /\ HasEvent(events', "destroy", index_buffers_[i])
                /\ index_buffers_'[i].count = imguiData'[i].IdxSize

C9_DefaultThenExact == []C9_Events /\ [][C9_Step]_vars

\* A call that appended a slot and, its draw list asking for 1200 vertices,
\* rebuilt the slot's vertex buffer.
C9_Witness ==
    /\ Translated
    /\ HasEvent(events, "create", Buffer("vb", 1, DefaultVertexCapacity))
    /\ HasEvent(events, "create", Buffer("ib", 1, DefaultIndexCapacity))
    /\ HasEvent(events, "destroy", Buffer("vb", 1, DefaultVertexCapacity))
    /\ HasEvent(events, "create", Buffer("vb", 1, 1200))

----------------------------------------------------------------------------
(* The draw commands of a frame, told without the loops of update. *)

AllCmds(data) == {d \in (1..Len(data)) \X (1..(MaxCmds + 1)) : d[2] <= Len(data[d[1]].CmdBuffer)}

CmdAt(data, d) == data[d[1]].CmdBuffer[d[2]]

\* The commands that draw, and those that call back.
Drawn(data) == {d \in AllCmds(data) : ~CmdAt(data, d).UserCallback}
CalledBack(data) == {d \in AllCmds(data) : CmdAt(data, d).UserCallback}

Before(d, e) == d[1] < e[1] \/ (d[1] = e[1] /\ d[2] < e[2])

\* The place among the primitives of the command d that draws (from 1).
PrimOf(data, d) == Cardinality({e \in Drawn(data) : Before(e, d)}) + 1

\* The place of the command d among all the commands (from 1).
PlaceOf(data, d) == Cardinality({e \in AllCmds(data) : Before(e, d)}) + 1

\* The elements of the commands before d in its list.
RECURSIVE ElemsBefore(_, _)
ElemsBefore(data, d) ==
    IF d[2] = 1 THEN 0
    ELSE ElemsBefore(data, <<d[1], d[2] - 1>>) + CmdAt(data, <<d[1], d[2] - 1>>).ElemCount

KeyOf(data, d) == makeScissorKey(castMode, fb[2], CmdAt(data, d).ClipRect)

----------------------------------------------------------------------------
(* C4 as stated: after any update call the Renderable holds the geometry of
   that call's draw data and nothing else: torn down and left unbuilt for a
   frame without draw lists, built from the frame's commands otherwise. *)

Geometry(r) == {p \in 1..Len(r.prims) : r.prims[p] # Unset}

Reflects(r, data) ==
    IF Len(data) = 0
    THEN r = Absent
    ELSE /\ r.built
         /\ Cardinality(Geometry(r)) = Cardinality(Drawn(data))
         /\ \A d \in Drawn(data) :
             /\ PrimOf(data, d) \in Geometry(r)
             /\ r.prims[PrimOf(data, d)].vb = vertex_buffers_[d[1]]
             /\ r.prims[PrimOf(data, d)].ib = index_buffers_[d[1]]
             /\ r.prims[PrimOf(data, d)].count = CmdAt(data, d).ElemCount

C4_ReflectsEveryCall == Updated => Reflects(renderable_, imguiData)

(* C4, amended: after an update call whose framebuffer has an area, the
   Renderable holds the geometry of that call's draw data and nothing else;
   the previous Renderable was destroyed in the call before anything was built. *)
C4_ReflectsTranslatedCall ==
    Translated =>
        /\ Reflects(renderable_, imguiData)
        /\ Cardinality(EventsOf("destroyRenderable")) = 1
        /\ BuffersOf(renderable_) \subseteq
            {vertex_buffers_[i] : i \in 1..Len(vertex_buffers_)}
                \cup {index_buffers_[i] : i \in 1..Len(index_buffers_)}

\* A frame without draw lists that followed a frame with some: the slots are
\* there, the Renderable is not.
C4_Witness ==
    /\ Translated
    /\ Len(imguiData) = 0
    /\ Len(vertex_buffers_) = MaxLists
    /\ renderable_ = Absent

----------------------------------------------------------------------------
(* C5: an update call whose framebuffer width or height is zero changes
   nothing: the Renderable, the buffers and the material instances are those
   of before the call, and the engine is asked nothing. *)
C5_Step ==
    (lastOp' = "update" /\ (fb'[1] = 0 \/ fb'[2] = 0)) =>
        /\ UNCHANGED <<renderable_, vertex_buffers_, index_buffers_, material_instances_>>
        /\ events' = <<>>

C5_ZeroAreaIsNoOp == [][C5_Step]_vars

\* A skipped call that left a Renderable built from another frame.
C5_Witness ==
    /\ Skipped
    /\ renderable_.built
    /\ ~Reflects(renderable_, imguiData)
    /\ Len(material_instances_) > 0

----------------------------------------------------------------------------
(* C6 as stated: the Renderable has as many primitives as the draw lists
   have commands, and each of them is the primitive of a command of a list:
   it reads that list's slot, with the command's element count, from the sum
   of the element counts of the commands before it in the list. *)
IsPrimitiveOf(prim, data, d) ==
    /\ prim.vb = vertex_buffers_[d[1]]
    /\ prim.count = CmdAt(data, d).ElemCount
    /\ prim.offset = ElemsBefore(data, d)

C6_EveryPrimitiveHasItsCommand ==
    Translated =>
        /\ Len(renderable_.prims) = Cardinality(AllCmds(imguiData))
        /\ \A p \in 1..Len(renderable_.prims) :
            \E d \in AllCmds(imguiData) : IsPrimitiveOf(renderable_.prims[p], imguiData, d)

(* C6, amended: the Renderable has one primitive entry per draw command, the
   commands with a callback included; the commands without a callback fill
   the first entries in order, each with the index offset equal to the sum of
   the element counts of all the commands before it in its list, and one
   entry per callback command is left without geometry at the end. *)
C6_EntriesAndOffsets ==
    Translated =>
        /\ Len(renderable_.prims) = Cardinality(AllCmds(imguiData))
        /\ \A d \in Drawn(imguiData) :
            /\ IsPrimitiveOf(renderable_.prims[PrimOf(imguiData, d)], imguiData, d)
            /\ renderable_.prims[PrimOf(imguiData, d)].blendOrder = PrimOf(imguiData, d) - 1
        /\ \A p \in 1..Len(renderable_.prims) :
            p > Cardinality(Drawn(imguiData)) => renderable_.prims[p] = Unset

\* Two lists, each a callback of 9 elements and then a drawn command: both
\* primitives start at 9 and two entries are left unset.
C6_Witness ==
    /\ Translated
    /\ Len(imguiData) = 2
    /\ Len(renderable_.prims) = 4
    /\ renderable_.prims[1].offset = 9
    /\ renderable_.prims[2].offset = 9
    /\ renderable_.prims[2].vb = vertex_buffers_[2]
    /\ renderable_.prims[3] = Unset

----------------------------------------------------------------------------
(* C7 as stated: two draw commands have the same material instance exactly
   when their clip rectangles pack to the same key, and the primitives of the
   frame use as many material instances as the clip rectangles of the frame
   have keys. *)

MaterialOf(data, d) == renderable_.prims[PrimOf(data, d)].material

MaterialsUsed == {renderable_.prims[p].material : p \in Geometry(renderable_)}

SameMaterialIffSameKey ==
    \A d \in Drawn(imguiData), e \in Drawn(imguiData) :
        (MaterialOf(imguiData, d) = MaterialOf(imguiData, e))
            <=> (KeyOf(imguiData, d) = KeyOf(imguiData, e))

C7_OneMaterialPerFrameKey ==
    Translated =>
        /\ SameMaterialIffSameKey
        /\ Cardinality(MaterialsUsed) = Cardinality(ScissorKeys(castMode, fb[2], imguiData))

(* C7, amended: two commands that draw have the same material instance exactly
   when their clip rectangles pack to the same key; the primitives use as many
   instances as the commands that draw have keys, which is fewer than the keys
   of the frame when a callback command has a clip rectangle of its own. *)
C7_OneMaterialPerDrawnKey ==
    Translated =>
        /\ SameMaterialIffSameKey
        /\ Cardinality(MaterialsUsed)
            = Cardinality({KeyOf(imguiData, d) : d \in Drawn(imguiData)})
        /\ Cardinality(MaterialsUsed) <= Cardinality(ScissorKeys(castMode, fb[2], imguiData))
        /\ \A m \in MaterialsUsed :
            m \in 0..(Cardinality(ScissorKeys(castMode, fb[2], imguiData)) - 1)

\* A frame whose callback has a clip rectangle no drawn command has: two keys,
\* one material in use.
C7_Witness ==
    /\ Translated
    /\ Cardinality(ScissorKeys(castMode, fb[2], imguiData)) = 2
    /\ Cardinality(MaterialsUsed) = 1
    /\ CalledBack(imguiData) # {}

----------------------------------------------------------------------------
(* C8: the pool of material instances never shrinks; a frame that is not
   skipped leaves it with max(size before, number of keys of the frame)
   instances, those of before kept at their places. *)
C8_Step ==
    /\ Len(material_instances_') >= Len(material_instances_)
    /\ Translated' =>
        Len(material_instances_')
            = Max(Len(material_instances_),
                  Cardinality(ScissorKeys(castMode, fb'[2], imguiData')))

C8_PoolNeverShrinks == [][C8_Step]_vars

\* A frame with one key after a frame with two.
C8_Witness ==
    /\ Translated
    /\ Len(material_instances_) = 2
    /\ Cardinality(ScissorKeys(castMode, fb[2], imguiData)) = 1

----------------------------------------------------------------------------
(* C10: makeScissorKey packs, in disjoint 16-bit fields, the four components
   (left, fbheight - bottom, right - left, bottom - top) each clamped to
   [0, 65535]. *)

Clamp16(f) ==
    IF f < 0 THEN 0
    ELSE IF FloatToInt(f) > TwoTo16 - 1 THEN TwoTo16 - 1
    ELSE FloatToInt(f)

ClampedKey(fbheight, clipRect) ==
    << Clamp16(clipRect.x),
       Clamp16(IntToFloat(fbheight) - clipRect.w),
       Clamp16(clipRect.z - clipRect.x),
       Clamp16(clipRect.w - clipRect.y) >>

C10_KeyIsClamped ==
    keyOut # <<>> => keyOut = ClampedKey(keyArg.fbheight, keyArg.clipRect)

----------------------------------------------------------------------------
(* Combobox (src/src/Open3D/GUI/Combobox.cpp). An index is the C++ index,
   from 0; items_[i + 1] is the item at index i. *)

MaxItems == 3

ItemNames == {"a", "b"}

\* The values asked of SetSelectedValue: the names, and one that no item has.
Values == ItemNames \cup {"c"}

\* Combobox::GetSelectedValue
GetSelectedValue(items, index) ==
    IF index >= 0 /\ index < Len(items) THEN items[index + 1] ELSE ""

\* Mutant: the index one past the last item is accepted.
SetSelectedIndex_UpToSize(items, current, index) ==
    IF index >= 0 /\ index <= Len(items) THEN index ELSE current

\* Combobox::SetSelectedIndex: the current_index_ it leaves.
SetSelectedIndex(items, current, index) ==
    IF index >= 0 /\ index < Len(items) THEN index ELSE current

\* Combobox::SetSelectedValue: the loop from index i on.
RECURSIVE SetSelectedValueFrom(_, _, _, _)
SetSelectedValueFrom(items, current, svalue, i) ==
    IF i >= Len(items) THEN current
    ELSE IF items[i + 1] = svalue THEN SetSelectedIndex(items, current, i)
    ELSE SetSelectedValueFrom(items, current, svalue, i + 1)

SetSelectedValue(items, current, value) == SetSelectedValueFrom(items, current, value, 0)

Notification(value, index) == [value |-> value, index |-> index]

\* Mutant: the function is called before current_index_ is assigned.
RECURSIVE SelectablesFrom_NotifyFirst(_, _, _)
SelectablesFrom_NotifyFirst(st, clicked, i) ==
    IF i >= Len(st.items_) THEN st
    ELSE IF i \in clicked
    THEN SelectablesFrom_NotifyFirst(
             [st EXCEPT !.current_index_ = i, !.valueChanged = TRUE,
                        !.notified =
                            IF st.on_value_changed_
                            THEN Append(@, Notification(
                                     GetSelectedValue(st.items_, st.current_index_), i))
                            ELSE @],
             clicked, i + 1)
    ELSE SelectablesFrom_NotifyFirst(st, clicked, i + 1)

\* Combobox::Draw: the loop over the items of the open popup, from index i on;
\* clicked holds the indices whose ImGui::Selectable returns true.
RECURSIVE SelectablesFrom(_, _, _)
SelectablesFrom(st, clicked, i) ==
    IF i >= Len(st.items_) THEN st
    ELSE IF i \in clicked
    THEN SelectablesFrom(
             [st EXCEPT !.current_index_ = i, !.valueChanged = TRUE,
                        !.notified =
                            IF st.on_value_changed_
                            THEN Append(@, Notification(GetSelectedValue(st.items_, i), i))
                            ELSE @],
             clicked, i + 1)
    ELSE SelectablesFrom(st, clicked, i + 1)

\* What one pass of Draw is given by ImGui: whether the popup was open before,
\* whether BeginCombo finds it open, and the items clicked in it. One pass has
\* at most one click.
DrawInput(wasOpen, open, clicked) == [wasOpen |-> wasOpen, open |-> open, clicked |-> clicked]

DrawInputs(items) ==
    {DrawInput(w, o, c) : w \in BOOLEAN, o \in BOOLEAN,
                          c \in {{}} \cup {{i} : i \in 0..(Len(items) - 1)}}

\* Combobox::Draw: the state it leaves and the DrawResult.
ComboDraw(items, current, hasFunction, in) ==
    LET st0 == [items_ |-> items, current_index_ |-> current,
                on_value_changed_ |-> hasFunction, notified |-> <<>>,
                valueChanged |-> FALSE]
        st == IF in.open THEN SelectablesFrom(st0, in.clicked, 0) ELSE st0
        didOpen == in.open /\ ~in.wasOpen
    IN  st @@ [result |-> IF st.valueChanged \/ didOpen THEN "REDRAW" ELSE "NONE"]

\* Mutant: the items are dropped and the index is kept.
ClearedIndex_Kept(current) == current

\* Combobox::ClearItems: the current_index_ it leaves.
ClearedIndex(current) == 0

\* The Combobox after Combobox::Combobox(), beside a bridge that is not used.
InitCombo ==
    /\ InitBridge
    /\ InitCast
    /\ UTILS_HAS_THREADING = TRUE
    /\ items_ = <<>>
    /\ current_index_ = 0
    /\ on_value_changed_ = FALSE
    /\ notified = <<>>
    /\ arg = <<>>
    /\ menus = <<>>
    /\ drawn = <<>>

AddItem ==
    \E name \in ItemNames :
        /\ Len(items_) < MaxItems
        /\ items_' = Append(items_, name)
        /\ lastOp' = "AddItem"
        /\ arg' = name
        /\ notified' = <<>>
        /\ UNCHANGED <<current_index_, on_value_changed_, drawn, menus, bridgeVars>>

ClearItems ==
    /\ items_' = <<>>
    /\ current_index_' = ClearedIndex(current_index_)
    /\ lastOp' = "ClearItems"
    /\ arg' = <<>>
    /\ notified' = <<>>
    /\ UNCHANGED <<on_value_changed_, drawn, menus, bridgeVars>>

SetSelectedIndexCall ==
    \E index \in -1..(MaxItems + 1) :
        /\ current_index_' = SetSelectedIndex(items_, current_index_, index)
        /\ lastOp' = "SetSelectedIndex"
        /\ arg' = index
        /\ notified' = <<>>
        /\ UNCHANGED <<items_, on_value_changed_, drawn, menus, bridgeVars>>

SetSelectedValueCall ==
    \E value \in Values :
        /\ current_index_' = SetSelectedValue(items_, current_index_, value)
        /\ lastOp' = "SetSelectedValue"
        /\ arg' = value
        /\ notified' = <<>>
        /\ UNCHANGED <<items_, on_value_changed_, drawn, menus, bridgeVars>>

SetOnValueChanged ==
    \E hasFunction \in BOOLEAN :
        /\ on_value_changed_' = hasFunction
        /\ lastOp' = "SetOnValueChanged"
        /\ arg' = hasFunction
        /\ notified' = <<>>
        /\ UNCHANGED <<items_, current_index_, drawn, menus, bridgeVars>>

Draw ==
    \E in \in DrawInputs(items_) :
        \E st \in {ComboDraw(items_, current_index_, on_value_changed_, in)} :
            /\ current_index_' = st.current_index_
            /\ notified' = st.notified
            /\ drawn' = st.result
            /\ lastOp' = "Draw"
            /\ arg' = in
            /\ UNCHANGED <<items_, on_value_changed_, menus, bridgeVars>>

NextCombo ==
    \/ AddItem
    \/ ClearItems
    \/ SetSelectedIndexCall
    \/ SetSelectedValueCall
    \/ SetOnValueChanged
    \/ Draw

SpecCombo == InitCombo /\ [][NextCombo]_vars

----------------------------------------------------------------------------
(* C11: SetSelectedIndex with an index below 0 or not below the number of
   items, and SetSelectedValue with a value no item has, leave the selected
   index as it was and do not call the value-changed function. *)

HasItem(items, value) == \E i \in 1..Len(items) : items[i] = value

C11_Step ==
    /\ (lastOp' = "SetSelectedIndex" /\ (arg' < 0 \/ arg' >= Len(items_)))
        => (current_index_' = current_index_ /\ notified' = <<>>)
    /\ (lastOp' = "SetSelectedValue" /\ ~HasItem(items_, arg'))
        => (current_index_' = current_index_ /\ notified' = <<>>)

C11_BadSelectionIgnored == [][C11_Step]_vars

\* SetSelectedIndex(size) on a Combobox with a function, whose second item
\* stays selected.
C11_Witness ==
    /\ lastOp = "SetSelectedIndex"
    /\ Len(items_) >= 2
    /\ arg = Len(items_)
    /\ current_index_ = 1
    /\ on_value_changed_

----------------------------------------------------------------------------
(* C12 as stated: with a value-changed function registered, a pass of Draw
   calls it exactly once when the pass changed the selection and not at all
   when it did not, with the value and the index selected after the pass; the
   setters never call it. *)

Programmatic == {"SetSelectedIndex", "SetSelectedValue"}

C12_StepPerChange ==
    /\ (lastOp' = "Draw" /\ on_value_changed_) =>
        /\ Len(notified') = (IF current_index_' # current_index_ THEN 1 ELSE 0)
        /\ notified' # <<>> =>
            notified'[1] = Notification(GetSelectedValue(items_', current_index_'),
                                        current_index_')
    /\ lastOp' \in Programmatic => notified' = <<>>

C12_NotifiedOncePerChange == [][C12_StepPerChange]_vars

(* C12, amended: with a value-changed function registered, a pass of Draw
   calls it exactly once when the user picked an item in the pass, be it the
   item that was selected already, with that item's value and index, which
   are the selected value and index after the pass; a pass without a pick
   calls nothing and keeps the selection; the setters never call it. *)
C12_StepPerPick ==
    /\ lastOp' = "Draw" =>
        IF arg'.open /\ arg'.clicked # {}
        THEN \E i \in arg'.clicked :
                /\ current_index_' = i
                /\ GetSelectedValue(items_', current_index_') = items_[i + 1]
                /\ notified' = (IF on_value_changed_
                                THEN <<Notification(items_[i + 1], i)>>
                                ELSE <<>>)
        ELSE /\ current_index_' = current_index_
             /\ notified' = <<>>
    /\ lastOp' \in Programmatic => notified' = <<>>

C12_NotifiedOncePerPick == [][C12_StepPerPick]_vars

\* A pass in which the user picked the second item, "b", of a list whose first
\* is "a".
C12_Witness ==
    /\ lastOp = "Draw"
    /\ Len(items_) >= 2
    /\ items_[1] = "a"
    /\ notified = <<Notification("b", 1)>>
    /\ current_index_ = 1
    /\ drawn = "REDRAW"

----------------------------------------------------------------------------
(* C19: after any operations on a Combobox the selected index is the index
   of an item, or 0 with no item; GetSelectedValue is the item at that index,
   or the empty string with no item. *)

C19_SelectionIsAnItem ==
    \/ /\ 0 <= current_index_
       /\ current_index_ < Len(items_)
       /\ GetSelectedValue(items_, current_index_) = items_[current_index_ + 1]
    \/ /\ current_index_ = 0
       /\ items_ = <<>>
       /\ GetSelectedValue(items_, current_index_) = ""

\* The last of three items, picked in Draw.
C19_Witness ==
    /\ lastOp = "Draw"
    /\ Len(items_) = MaxItems
    /\ current_index_ = MaxItems - 1
    /\ arg.clicked = {MaxItems - 1}

----------------------------------------------------------------------------
(* Menu (src/src/Open3D/GUI/Menu.cpp). The Menu objects are numbered from 1;
   menus[m] is the Impl of object m, and object 1 is the menu the operations
   are called on. A pointer to a MenuItem is <<m, i>>: item i (from 0) of
   items_ of object m. *)

MaxMenus == 3
MaxMenuItems == 3

\* Menu::NO_ITEM
NO_ITEM == -1

\* The identifiers given to AddItem, and those asked about.
ItemIds == {-2, 5}
AskedIds == ItemIds \cup {NO_ITEM, 7}

nullMenu == 0
nullItem == <<>>

MenuItem(id, submenu, separator) ==
    [id_ |-> id, submenu_ |-> submenu, is_enabled_ |-> TRUE, is_checked_ |-> FALSE,
     is_separator_ |-> separator]

EmptyMenu == [items_ |-> <<>>, id2idx_ |-> <<>>]

\* id2idx_.find(itemId) != id2idx_.end()
Has(id2idx, itemId) == itemId \in DOMAIN id2idx

\* id2idx_[itemId] = idx
Put(id2idx, itemId, idx) ==
    [k \in DOMAIN id2idx \cup {itemId} |-> IF k = itemId THEN idx ELSE id2idx[k]]

\* Mutant: the items are compared by their id_, headers and separators too.
FindMenuItem_ById(ms, m, itemId) ==
    LET found == {ptr \in (1..Len(ms)) \X (0..2) :
                    /\ ptr[2] < Len(ms[ptr[1]].items_)
                    /\ ms[ptr[1]].items_[ptr[2] + 1].id_ = itemId}
    IN  IF found = {} THEN <<>> ELSE CHOOSE ptr \in found : TRUE

\* Mutant: only the menu's own items are looked at.
FindMenuItem_Shallow(ms, m, itemId) ==
    IF Has(ms[m].id2idx_, itemId) THEN <<m, ms[m].id2idx_[itemId]>> ELSE nullItem

\* Menu::Impl::FindMenuItem on object m, and its loop over the items from i on.
RECURSIVE FindMenuItem(_, _, _)
RECURSIVE FindInSubmenusFrom(_, _, _, _)
FindInSubmenusFrom(ms, m, itemId, i) ==
    IF i >= Len(ms[m].items_) THEN nullItem
    ELSE IF ms[m].items_[i + 1].submenu_ # nullMenu
    THEN LET possibility == FindMenuItem(ms, ms[m].items_[i + 1].submenu_, itemId)
         IN  IF possibility # nullItem THEN possibility
             ELSE FindInSubmenusFrom(ms, m, itemId, i + 1)
    ELSE FindInSubmenusFrom(ms, m, itemId, i + 1)

FindMenuItem(ms, m, itemId) ==
    IF Has(ms[m].id2idx_, itemId) THEN <<m, ms[m].id2idx_[itemId]>>
    ELSE FindInSubmenusFrom(ms, m, itemId, 0)

ItemAt(ms, ptr) == ms[ptr[1]].items_[ptr[2] + 1]

\* Menu::IsEnabled, Menu::IsChecked on object m
IsEnabled(ms, m, itemId) ==
    LET item == FindMenuItem(ms, m, itemId)
    IN  IF item # nullItem THEN ItemAt(ms, item).is_enabled_ ELSE FALSE

IsChecked(ms, m, itemId) ==
    LET item == FindMenuItem(ms, m, itemId)
    IN  IF item # nullItem THEN ItemAt(ms, item).is_checked_ ELSE FALSE

\* Menu::SetEnabled, Menu::SetChecked on object m: the objects they leave.
SetEnabled(ms, m, itemId, enabled) ==
    LET item == FindMenuItem(ms, m, itemId)
    IN  IF item # nullItem
        THEN [ms EXCEPT ![item[1]].items_[item[2] + 1].is_enabled_ = enabled]
        ELSE ms

SetChecked(ms, m, itemId, checked) ==
    LET item == FindMenuItem(ms, m, itemId)
    IN  IF item # nullItem
        THEN [ms EXCEPT ![item[1]].items_[item[2] + 1].is_checked_ = checked]
        ELSE ms

\* What one draw pass is given by ImGui: the isEnabled argument, the objects
\* whose ImGui::BeginMenu returns true, and the items whose ImGui::MenuItem
\* returns true.
MenuInput(isEnabled, open, clicked) ==
    [isEnabled |-> isEnabled, open |-> open, clicked |-> clicked]

\* Menu::Draw on object m, and its loop over the items from i on.
RECURSIVE MenuDraw(_, _, _)
RECURSIVE DrawItemsFrom(_, _, _, _, _)
DrawItemsFrom(ms, m, in, i, activatedId) ==
    IF i >= Len(ms[m].items_) THEN activatedId
    ELSE LET item == ms[m].items_[i + 1]
         IN  IF item.is_separator_
             THEN DrawItemsFrom(ms, m, in, i + 1, activatedId)
             ELSE IF item.submenu_ # nullMenu
             THEN LET possibility == MenuDraw(ms, item.submenu_, in)
                  IN  DrawItemsFrom(ms, m, in, i + 1,
                          IF possibility # NO_ITEM THEN possibility ELSE activatedId)
             ELSE DrawItemsFrom(ms, m, in, i + 1,
                      IF <<m, i>> \in in.clicked THEN item.id_ ELSE activatedId)

MenuDraw(ms, m, in) ==
    IF m \in in.open THEN DrawItemsFrom(ms, m, in, 0, NO_ITEM) ELSE NO_ITEM

\* Menu::DrawMenuBar on object m: its loop over the items from i on.
RECURSIVE DrawBarItemsFrom(_, _, _, _, _)
DrawBarItemsFrom(ms, m, in, i, activatedId) ==
    IF i >= Len(ms[m].items_) THEN activatedId
    ELSE LET item == ms[m].items_[i + 1]
         IN  IF item.submenu_ # nullMenu
             THEN LET id == MenuDraw(ms, item.submenu_, in)
                  IN  DrawBarItemsFrom(ms, m, in, i + 1,
                          IF id >= 0 THEN id ELSE activatedId)
             ELSE DrawBarItemsFrom(ms, m, in, i + 1, activatedId)

DrawMenuBar(ms, m, in) == DrawBarItemsFrom(ms, m, in, 0, NO_ITEM)

\* The pointers to the items of the objects.
AllItems(ms) ==
    {ptr \in (1..MaxMenus) \X (0..(MaxMenuItems - 1)) : ptr[2] < Len(ms[ptr[1]].items_)}

\* The items a pass can report: neither separators nor submenu headers.
Leaves(ms) ==
    {ptr \in AllItems(ms) :
        ~ItemAt(ms, ptr).is_separator_ /\ ItemAt(ms, ptr).submenu_ = nullMenu}

\* The objects that are the submenu of an item.
Attached(ms) == {ItemAt(ms, ptr).submenu_ : ptr \in AllItems(ms)} \ {nullMenu}

\* The object that has m as the submenu of an item, if any.
ParentOf(ms, m) ==
    LET holders == {ptr \in AllItems(ms) : ItemAt(ms, ptr).submenu_ = m}
    IN  IF holders = {} THEN nullMenu ELSE (CHOOSE ptr \in holders : TRUE)[1]

\* m and the objects above it.
RECURSIVE PathTo(_, _)
PathTo(ms, m) == IF m = nullMenu THEN {} ELSE {m} \cup PathTo(ms, ParentOf(ms, m))

\* The objects of the tree of object 1.
InTree(ms) == {m \in 1..MaxMenus : 1 \in PathTo(ms, m)}

\* What ImGui can give a pass over the tree of object 1: no menu open; or the
\* menus down to one of them open and at most one item activated, an enabled
\* item of an open menu. A menu bar shows no item of its own.
CanActivate(ms, bar) ==
    {l \in Leaves(ms) :
        (l[1] \in InTree(ms)) /\ ItemAt(ms, l).is_enabled_ /\ (bar => l[1] # 1)}

MenuInputs(ms, bar) ==
    {MenuInput(e, {}, {}) : e \in BOOLEAN} \cup
    {MenuInput(TRUE, PathTo(ms, ptr[1]), {ptr}) : ptr \in CanActivate(ms, bar)} \cup
    {MenuInput(TRUE, PathTo(ms, m), {}) : m \in InTree(ms)}

RECURSIVE TotalItems(_, _)
TotalItems(ms, m) == IF m > MaxMenus THEN 0 ELSE Len(ms[m].items_) + TotalItems(ms, m + 1)

\* MaxMenus empty Menu objects, beside a bridge and a Combobox that are not used.
InitMenu ==
    /\ InitBridge
    /\ InitCast
    /\ UTILS_HAS_THREADING = TRUE
    /\ items_ = <<>>
    /\ current_index_ = 0
    /\ on_value_changed_ = FALSE
    /\ notified = <<>>
    /\ arg = <<>>
    /\ menus = [m \in 1..MaxMenus |-> EmptyMenu]
    /\ drawn = NO_ITEM

\* Menu::AddItem on an object of the tree: a submenu is filled through the
\* shared pointer after AddMenu as well as before, and every tree can be built
\* from the root down.
MenuAddItem ==
    \E m \in InTree(menus), itemId \in ItemIds :
        /\ TotalItems(menus, 1) < MaxMenuItems
        /\ menus' = [menus EXCEPT
                        ![m].id2idx_ = Put(@, itemId, Len(menus[m].items_)),
                        ![m].items_ = Append(@, MenuItem(itemId, nullMenu, FALSE))]
        /\ lastOp' = "Menu::AddItem"
        /\ arg' = <<m, itemId>>
        /\ UNCHANGED <<drawn, comboVars, bridgeVars>>

\* Menu::AddMenu on an object of the tree, with the next object that is in no
\* menu yet: the objects stay a tree.
AddMenu ==
    \E m \in InTree(menus), submenu \in 2..MaxMenus :
        /\ TotalItems(menus, 1) < MaxMenuItems
        /\ submenu \notin Attached(menus)
        /\ \A k \in 2..(submenu - 1) : k \in Attached(menus)
        /\ menus' = [menus EXCEPT ![m].items_ = Append(@, MenuItem(NO_ITEM, submenu, FALSE))]
        /\ lastOp' = "Menu::AddMenu"
        /\ arg' = <<m, submenu>>
        /\ UNCHANGED <<drawn, comboVars, bridgeVars>>

\* Menu::AddSeparator on an object of the tree
AddSeparator ==
    \E m \in InTree(menus) :
        /\ TotalItems(menus, 1) < MaxMenuItems
        /\ menus' = [menus EXCEPT ![m].items_ = Append(@, MenuItem(NO_ITEM, nullMenu, TRUE))]
        /\ lastOp' = "Menu::AddSeparator"
        /\ arg' = <<m>>
        /\ UNCHANGED <<drawn, comboVars, bridgeVars>>

SetEnabledCall ==
    \E itemId \in AskedIds, enabled \in BOOLEAN :
        /\ menus' = SetEnabled(menus, 1, itemId, enabled)
        /\ lastOp' = "Menu::SetEnabled"
        /\ arg' = <<itemId, enabled>>
        /\ UNCHANGED <<drawn, comboVars, bridgeVars>>

SetCheckedCall ==
    \E itemId \in AskedIds, checked \in BOOLEAN :
        /\ menus' = SetChecked(menus, 1, itemId, checked)
        /\ lastOp' = "Menu::SetChecked"
        /\ arg' = <<itemId, checked>>
        /\ UNCHANGED <<drawn, comboVars, bridgeVars>>

MenuDrawCall ==
    \E in \in MenuInputs(menus, FALSE) :
        /\ drawn' = MenuDraw(menus, 1, in)
        /\ lastOp' = "Menu::Draw"
        /\ arg' = in
        /\ UNCHANGED <<menus, comboVars, bridgeVars>>

DrawMenuBarCall ==
    \E in \in MenuInputs(menus, TRUE) :
        /\ drawn' = DrawMenuBar(menus, 1, in)
        /\ lastOp' = "Menu::DrawMenuBar"
        /\ arg' = in
        /\ UNCHANGED <<menus, comboVars, bridgeVars>>

NextMenu ==
    \/ MenuAddItem
    \/ AddMenu
    \/ AddSeparator
    \/ SetEnabledCall
    \/ SetCheckedCall
    \/ MenuDrawCall
    \/ DrawMenuBarCall

SpecMenu == InitMenu /\ [][NextMenu]_vars

----------------------------------------------------------------------------
(* C13: SetEnabled and SetChecked with an identifier that no item of the tree
   was added with change no item, and IsEnabled and IsChecked answer false
   for such an identifier. *)

\* The identifiers the items of the tree of object 1 were added with.
AddedIds(ms) == {ItemAt(ms, l).id_ : l \in {k \in Leaves(ms) : k[1] \in InTree(ms)}}

Setters == {"Menu::SetEnabled", "Menu::SetChecked"}

C13_Step ==
    (lastOp' \in Setters /\ arg'[1] \notin AddedIds(menus)) =>
        /\ menus' = menus
        /\ \A itemId \in AskedIds :
            /\ IsEnabled(menus', 1, itemId) = IsEnabled(menus, 1, itemId)
            /\ IsChecked(menus', 1, itemId) = IsChecked(menus, 1, itemId)

C13_Unknown ==
    \A itemId \in AskedIds \ AddedIds(menus) :
        /\ ~IsEnabled(menus, 1, itemId)
        /\ ~IsChecked(menus, 1, itemId)

C13_UnknownIdIsNoOp == []C13_Unknown /\ [][C13_Step]_vars

\* SetEnabled(NO_ITEM, false) on a menu with a submenu header, whose id_ is
\* NO_ITEM, and an item in the submenu: all stay enabled.
C13_Witness ==
    /\ lastOp = "Menu::SetEnabled"
    /\ arg = <<NO_ITEM, FALSE>>
    /\ 2 \in InTree(menus)
    /\ AddedIds(menus) # {}
    /\ \A ptr \in AllItems(menus) : ItemAt(menus, ptr).is_enabled_

----------------------------------------------------------------------------
(* C14: an identifier that a leaf item of the tree was added with, at any
   depth, is found from the root at an item that carries it; SetEnabled and
   SetChecked on the root change that item and no other, and IsEnabled and
   IsChecked on the root answer the value last set. *)

C14_Found ==
    \A itemId \in AddedIds(menus) :
        /\ FindMenuItem(menus, 1, itemId) \in Leaves(menus)
        /\ ItemAt(menus, FindMenuItem(menus, 1, itemId)).id_ = itemId

C14_Step ==
    (lastOp' \in Setters /\ arg'[1] \in AddedIds(menus)) =>
        LET item == FindMenuItem(menus, 1, arg'[1])
        IN  /\ FindMenuItem(menus', 1, arg'[1]) = item
            /\ lastOp' = "Menu::SetEnabled" =>
                /\ IsEnabled(menus', 1, arg'[1]) = arg'[2]
                /\ menus' = [menus EXCEPT
                                ![item[1]].items_[item[2] + 1].is_enabled_ = arg'[2]]
            /\ lastOp' = "Menu::SetChecked" =>
                /\ IsChecked(menus', 1, arg'[1]) = arg'[2]
                /\ menus' = [menus EXCEPT
                                ![item[1]].items_[item[2] + 1].is_checked_ = arg'[2]]

C14_NestedIdIsFound == []C14_Found /\ [][C14_Step]_vars

\* SetChecked(5, true) where 5 is an item of a menu that is in a menu that is
\* in the first.
C14_Witness ==
    /\ lastOp = "Menu::SetChecked"
    /\ arg = <<5, TRUE>>
    /\ FindMenuItem(menus, 1, 5) # nullItem
    /\ Cardinality(PathTo(menus, FindMenuItem(menus, 1, 5)[1])) = 3
    /\ IsChecked(menus, 1, 5)

----------------------------------------------------------------------------
(* C15: a draw pass, Draw as well as DrawMenuBar, returns the identifier of
   the leaf item activated in the pass, at whatever depth, and NO_ITEM when
   none was. *)

Passes == {"Menu::Draw", "Menu::DrawMenuBar"}

Activated(ms, in) ==
    IF in.clicked = {} THEN NO_ITEM
    ELSE ItemAt(ms, CHOOSE ptr \in in.clicked : TRUE).id_

C15_PassReturnsActivated == lastOp \in Passes => drawn = Activated(menus, arg)

----------------------------------------------------------------------------
(* C16: every draw command is handled in exactly one of two ways. One with a
   callback has its callback called once and gives no primitive. One without
   gives one primitive: of the buffers of its list's slot, with its element
   count, starting at the sum of the element counts of all the commands before
   it in the list, callbacks included, and with primitive index and blend order
   the number of primitives given before it in the frame. *)

CallbacksOf(d) == {k \in EventsOf("callback") : events[k].obj = CmdRef(d[1] - 1, d[2] - 1)}

C16_CallbackOrPrimitive ==
    Translated =>
        /\ \A d \in CalledBack(imguiData) : Cardinality(CallbacksOf(d)) = 1
        /\ \A d \in Drawn(imguiData) : CallbacksOf(d) = {}
        /\ Cardinality(EventsOf("callback")) = Cardinality(CalledBack(imguiData))
        /\ Cardinality(Geometry(renderable_)) = Cardinality(Drawn(imguiData))
        /\ \A d \in Drawn(imguiData) :
            LET prim == renderable_.prims[PrimOf(imguiData, d)]
            IN  /\ prim.vb = vertex_buffers_[d[1]]
                /\ prim.ib = index_buffers_[d[1]]
                /\ prim.count = CmdAt(imguiData, d).ElemCount
                /\ prim.offset = ElemsBefore(imguiData, d)
                /\ prim.blendOrder = PrimOf(imguiData, d) - 1

\* One list: a callback of 9 elements, called once, then a drawn command,
\* whose primitive is the first and starts at 9.
C16_Witness ==
    /\ Translated
    /\ Len(imguiData) = 1
    /\ Len(imguiData[1].CmdBuffer) = 2
    /\ imguiData[1].CmdBuffer[1].UserCallback
    /\ Cardinality(EventsOf("callback")) = 1
    /\ Geometry(renderable_) = {1}
    /\ renderable_.prims[1].offset = 9

----------------------------------------------------------------------------
(* C17: the scissor last set on the material instance of a primitive is the
   (left, bottom, width, height) of the primitive's own clip rectangle: what
   is unpacked from the key is what was packed into it, and no other key of
   the frame was written over it. *)

ScissorOf(mode, fbheight, clipRect) ==
    MaterialInstance(CastUint16(mode, clipRect.x),
                     CastUint16(mode, IntToFloat(fbheight) - clipRect.w),
                     CastUint16(mode, clipRect.z - clipRect.x),
                     CastUint16(mode, clipRect.w - clipRect.y))

C17_ScissorIsOwnClipRect ==
    Translated =>
        \A d \in Drawn(imguiData) :
            /\ MaterialOf(imguiData, d) \in 0..(Len(material_instances_) - 1)
            /\ material_instances_[MaterialOf(imguiData, d) + 1]
                = ScissorOf(castMode, fb[2], CmdAt(imguiData, d).ClipRect)

\* Two primitives with different clip rectangles, each with its own scissor.
C17_Witness ==
    /\ Translated
    /\ Cardinality(Drawn(imguiData)) >= 2
    /\ \E d \in Drawn(imguiData), e \in Drawn(imguiData) :
        /\ MaterialOf(imguiData, d) # MaterialOf(imguiData, e)
        /\ material_instances_[MaterialOf(imguiData, d) + 1]
            # material_instances_[MaterialOf(imguiData, e) + 1]
        /\ material_instances_[MaterialOf(imguiData, d) + 1].width > 0

----------------------------------------------------------------------------
(* C18: no vertex or index buffer is destroyed while the Renderable points to
   it. In update the Renderable is destroyed before any slot is rebuilt, and
   createBuffers, which runs before that, builds buffers only for slots that
   had none; the destructor destroys the Renderable before the buffers. *)

Destroyed == lastOp = "~ImguiFilamentBridge"

RenderableDestroyedAt == CHOOSE k \in EventsOf("destroyRenderable") : TRUE

C18_NoBufferDestroyedInUse ==
    /\ \A k \in EventsOf("destroy") : ~events[k].inUse
    /\ (Translated \/ Destroyed) =>
        /\ Cardinality(EventsOf("destroyRenderable")) = 1
        /\ \A k \in EventsOf("destroy") : RenderableDestroyedAt < k
        /\ \A k \in EventsOf("create") :
            k < RenderableDestroyedAt => events[k].obj.count = DefaultOf(events[k].obj)
    /\ Destroyed =>
        /\ renderable_ = Absent
        /\ \A i \in 1..Len(vertex_buffers_) :
            /\ HasEvent(events, "destroy", vertex_buffers_[i])
            /\ HasEvent(events, "destroy", index_buffers_[i])

\* An update that rebuilt a buffer the Renderable of the frame before pointed
\* to, with that Renderable destroyed first.
C18_Witness ==
    /\ Translated
    /\ HasEvent(events, "destroy", Buffer("vb", 0, DefaultVertexCapacity))
    /\ renderable_.built
    /\ renderable_.prims[1].vb = Buffer("vb", 0, 1500)

====
